---- MODULE Spec2Model ----
(***************************************************************************)
(* The useBlinkDetection hook (src/src/hooks/useBlinkDetection.ts): the    *)
(* detector initialisation, the requestAnimationFrame loop that            *)
(* startDetection creates, the debouncer inside detectFrame and            *)
(* stopDetection.                                                          *)
(*                                                                         *)
(* EAR values are in hundredths (0.2 is 20).  The averaged EAR             *)
(* (leftEAR + rightEAR) / 2 is compared with the threshold as              *)
(* leftEAR + rightEAR < 2 * earThreshold, which is the same comparison     *)
(* without the division.                                                   *)
(*                                                                         *)
(* Every startDetection call makes its own detectFrame closure, with its   *)
(* own lastVideoTime.  Closures have no name in the code: the model keeps  *)
(* the closures whose requestAnimationFrame callback is pending as a bag,  *)
(* by their lastVideoTime, and says of animationFrameRef whether the       *)
(* handle it holds is one of a pending callback.  video.currentTime is a   *)
(* frame number that only grows.                                           *)
(***************************************************************************)
EXTENDS Integers, Sequences, FiniteSets, TLC

\* ------------------------------------------------------------- bounds
MaxTime == 3
MaxLoops == 2
MaxConsec == 2
MaxInit == 1
MaxCoord == 2
MaxNow == 6
MaxBlinks == 6
MaxShift == 1
MaxStreams == 4
MaxInstances == 2
MaxWords == 3
MaxResults == 2
MaxDismiss == 1
MaxChars == 2

\* ---------------------------------------------------------- constants
earThreshold == 20
InitialLastVideoTime == -1
ReadyVideoWidth == 640
OtpLength == 6
Epsilon == 100
SettleWindow == 2

EARValues == {10, 30}
VideoTimes == InitialLastVideoTime .. MaxTime

VARIABLES
  faceLandmarkerRef,   \* TRUE iff faceLandmarkerRef.current is non-null
  isInitialized,       \* React state
  isRunning,           \* React state
  error,               \* TRUE iff the error state holds a message
  initPending,         \* initializeDetector calls awaiting their promise
  animationFrameRef,   \* animationFrameRef.current: NullRef, FiredRef, PendingRef(v)
  blinkCounterRef,     \* blinkCounterRef.current
  wasBlinkingRef,      \* wasBlinkingRef.current
  consecutiveFrames,   \* the consecutiveFrames option
  armed,               \* armed[v]: pending detectFrame callbacks with lastVideoTime v
  started,             \* detectFrame closures made so far
  videoWidth,          \* video.videoWidth
  currentTime,         \* video.currentTime, as a frame number
  inBlink,             \* TRUE iff a detectFrame run is inside the onBlink handler
  lastCall,            \* the last call of startDetection / stopDetection
  mon,                 \* the frames passed through the debouncer since it was clean
  counted,             \* TRUE iff the current video frame has incremented the counter
  landmarks,           \* calculateEAR: the four landmarks of one eye
  ear,                 \* calculateEAR: the value returned for landmarks
  shifted,             \* calculateEAR: the offset by which the landmarks were moved
  now,                 \* gesture accumulator: the clock
  gesture,             \* gesture accumulator: the open Gesture, or NoGesture
  detecting,           \* gesture accumulator: start() was called and stop() was not
  onGestureLog,        \* the onGesture callbacks made, in order
  actionLog,           \* the effects the dispatcher invoked, in order
  gmon,                \* the blink events seen by the accumulator
  isActive,            \* WebcamFeed: the isActive prop
  mounted,             \* WebcamFeed: the component is mounted (videoRef.current is set)
  gumPending,          \* WebcamFeed: getUserMedia calls awaiting their promise
  acquired,            \* WebcamFeed: the streams getUserMedia has given so far
  liveStreams,         \* WebcamFeed: the streams whose tracks have not been stopped
  streamRef,           \* WebcamFeed: streamRef.current, a stream or NoStream
  srcObject,           \* WebcamFeed: the srcObject of the video element
  modalActive,         \* VoiceMessageModal: the isActive prop
  isSending,           \* VoiceMessageModal: React state
  messageSent,         \* VoiceMessageModal: React state
  autoTimer,           \* VoiceMessageModal: the timer of the auto-start effect is pending
  dismissTimer,        \* VoiceMessageModal: the auto-close timers that are pending
  hasSpeechAPI,        \* useSpeechToText: the browser has SpeechRecognition
  isListening,         \* useSpeechToText: React state
  transcript,          \* useSpeechToText: React state, as a sequence of words
  speechError,         \* useSpeechToText: TRUE iff the error state holds a message
  recognitionRef,      \* useSpeechToText: recognitionRef.current, an instance or NoInstance
  recognition,         \* useSpeechToText: the phase of every recognition instance
  speechCall,          \* useSpeechToText: the last call of startListening / stopListening
  heard,               \* the results delivered since the transcript was last emptied
  request,             \* send-voice-message: the request given to the handler
  handlerAt,           \* send-voice-message: where the handler is
  bodyRead,            \* send-voice-message: req.json() was called
  mailCalls,           \* send-voice-message: the resend.emails.send calls made
  response,            \* send-voice-message: the Response returned, or NoResponse
  mode,                \* Auth: React state
  isSubmitting,        \* Auth: React state
  pending,             \* Auth: the useAuth call that handleSubmit awaits, or NoCall
  onPage,              \* Auth: the page is shown (it has not navigated to '/')
  emailOk,             \* Auth: the email field passes emailSchema
  passwordOk,          \* Auth: the password field passes passwordSchema
  otpLen,              \* Auth: otpCode.length
  newPasswordOk,       \* Auth: the newPassword field passes passwordSchema
  otpVerified          \* a verifyOtp call has succeeded since mode was last 'login'

hookVars == <<faceLandmarkerRef, isInitialized, isRunning, error, initPending,
              animationFrameRef, blinkCounterRef, wasBlinkingRef, consecutiveFrames,
              armed, started, videoWidth, currentTime, inBlink, lastCall, mon, counted>>

earVars == <<landmarks, ear, shifted>>
gestureVars == <<now, gesture, detecting, onGestureLog, actionLog, gmon>>

camVars == <<isActive, mounted, gumPending, acquired, liveStreams, streamRef, srcObject>>

modalVars == <<modalActive, isSending, messageSent, autoTimer, dismissTimer>>
speechVars == <<hasSpeechAPI, isListening, transcript, speechError, recognitionRef,
                recognition, speechCall, heard>>
voiceVars == <<modalVars, speechVars>>

\* the components of the page other than blink detection
pageVars == <<camVars, voiceVars>>

\* the send-voice-message edge function
handlerVars == <<request, handlerAt, bodyRead, mailCalls, response>>

\* the Auth page
authVars == <<mode, isSubmitting, pending, onPage, emailOk, passwordOk, otpLen,
              newPasswordOk, otpVerified>>

\* what the edge function does not touch
clientVars == <<hookVars, earVars, gestureVars, pageVars, authVars>>

\* what the Auth page does not touch
notAuthVars == <<hookVars, earVars, gestureVars, pageVars, handlerVars>>

\* what the hook does not touch
otherVars == <<earVars, gestureVars, pageVars, handlerVars, authVars>>

\* blink detection: the hook, calculateEAR and the gesture accumulator
detectionVars == <<hookVars, earVars, gestureVars>>

\* what WebcamFeed does not touch
notCamVars == <<detectionVars, voiceVars, handlerVars, authVars>>

\* what VoiceMessageModal and useSpeechToText do not touch
notVoiceVars == <<detectionVars, camVars, handlerVars, authVars>>

vars == <<hookVars, earVars, gestureVars, pageVars, handlerVars, authVars>>

initVars == <<faceLandmarkerRef, isInitialized, error, initPending>>
videoVars == <<videoWidth, currentTime>>
debounceVars == <<blinkCounterRef, wasBlinkingRef>>

\* ------------------------------------------------- detectForVideo
\* The result of faceLandmarkerRef.current.detectForVideo(video, now): it
\* throws, it finds no face, or it gives the landmarks of one face, of which
\* the model keeps the two eye aspect ratios.
NoFace == [kind |-> "noface", l |-> 0, r |-> 0]
Throws == [kind |-> "throw", l |-> 0, r |-> 0]
Face(a, b) == [kind |-> "face", l |-> a, r |-> b]
Results == {Throws, NoFace} \cup {Face(a, b) : a \in EARValues, b \in EARValues}

\* (mutation: a result without a face is taken for a face)
HasFace_Always(res) == res.kind \in {"face", "noface"}

\* results.faceLandmarks && results.faceLandmarks.length > 0
HasFace(res) == res.kind = "face"

\* -------------------------------------------------- the debouncer
\* (mutation: the comparison is the wrong way round)
IsClosed_Flipped(l, r) == l + r > 2 * earThreshold

\* avgEAR < earThreshold
IsClosed(l, r) == l + r < 2 * earThreshold

\* (mutations: > for >=, and a run that is one frame short accepted)
LongEnough_Strict(counter, min) == counter > min
LongEnough_OneShort(counter, min) == counter >= min - 1

\* blinkCounterRef.current >= consecutiveFrames
LongEnough(counter, min) == counter >= min

\* (mutation: the wasBlinking flag is not looked at)
ShouldEmit_IgnoresWas(counter, was, min) == counter >= min

\* the condition under which onBlink is called on a reopening frame
ShouldEmit(counter, was, min) == LongEnough(counter, min) /\ ~was

\* (mutation: wasBlinkingRef.current is never set)
WasAfterOpen_NeverSet(counter, was, min) == FALSE

\* wasBlinkingRef.current after the if/else of a reopening frame
WasAfterOpen(counter, was, min) ==
  IF LongEnough(counter, min) THEN (IF ~was THEN TRUE ELSE was) ELSE FALSE

\* --------------------------------------- requestAnimationFrame
NullRef == [state |-> "null", of |-> InitialLastVideoTime]
FiredRef == [state |-> "fired", of |-> InitialLastVideoTime]
PendingRef(v) == [state |-> "pending", of |-> v]

AddCallback(a, v) == [a EXCEPT ![v] = @ + 1]
RemoveCallback(a, v) == [a EXCEPT ![v] = @ - 1]

\* animationFrameRef.current = requestAnimationFrame(detectFrame), by a
\* closure whose lastVideoTime is v, with a the callbacks pending before
Rearm(a, v) ==
  /\ armed' = AddCallback(a, v)
  /\ animationFrameRef' = PendingRef(v)

\* cancelAnimationFrame(animationFrameRef.current): a handle whose callback
\* has fired already cancels nothing
Cancel(a, ref) ==
  IF ref.state = "pending" THEN RemoveCallback(a, ref.of) ELSE a

RECURSIVE SumOver(_, _)
SumOver(a, S) ==
  IF S = {} THEN 0
  ELSE LET v == CHOOSE x \in S : TRUE IN a[v] + SumOver(a, S \ {v})

\* the detectFrame callbacks that are pending
ArmedCount == SumOver(armed, VideoTimes)

\* the detectFrame closures that will run again or are running
LiveCount == ArmedCount + (IF inBlink THEN 1 ELSE 0)

\* ----------------------------------------------------- observation
\* The frames that went through the debouncer since its state was last clean
\* (construction or stopDetection), as read off the frames alone:
\*   run       the length of the run of closed frames that is going on
\*   dropout   a frame without a face came during that run
\*   shortOnly no run of closed frames has reached consecutiveFrames so far
\*   emits     the onBlink calls made
\*   phase     how far the frames match "open frames, then at least
\*             consecutiveFrames closed frames, then one open frame"
CleanMon ==
  [run |-> 0, dropout |-> FALSE, shortOnly |-> TRUE, emits |-> 0, phase |-> "opens"]

Observe(m, l, r, emitted) ==
  LET closed == l + r < 2 * earThreshold IN
  [run |-> IF closed THEN m.run + 1 ELSE 0,
   dropout |-> closed /\ m.dropout,
   shortOnly |-> m.shortOnly /\ (closed => m.run + 1 < consecutiveFrames),
   emits |-> m.emits + (IF emitted THEN 1 ELSE 0),
   phase |-> IF closed
               THEN (IF m.phase \in {"opens", "closing"} THEN "closing" ELSE "other")
               ELSE (IF m.phase = "opens" /\ m.run = 0 THEN "opens"
                     ELSE IF m.phase = "closing" /\ m.run >= consecutiveFrames
                       THEN "reopened"
                     ELSE "other")]

ObserveNoFace(m) == [m EXCEPT !.dropout = (m.run > 0)]

HookInit ==
  /\ faceLandmarkerRef = FALSE
  /\ isInitialized = FALSE
  /\ isRunning = FALSE
  /\ error = FALSE
  /\ initPending = 0
  /\ animationFrameRef = NullRef
  /\ blinkCounterRef = 0
  /\ wasBlinkingRef = FALSE
  /\ consecutiveFrames \in 0 .. MaxConsec
  /\ armed = [v \in VideoTimes |-> 0]
  /\ started = 0
  /\ videoWidth = 0
  /\ currentTime = 0
  /\ inBlink = FALSE
  /\ lastCall = "none"
  /\ mon = CleanMon
  /\ counted = FALSE

\* The hook as it is constructed with the default consecutiveFrames.
HookAtRest == HookInit /\ consecutiveFrames = 2

\* No landmarks have been given to calculateEAR.
NoLandmarks == <<>>
NotComputed == [kind |-> "none", val |-> 0]
NoShift == [x |-> 0, y |-> 0, z |-> 0]
EarIdle == landmarks = NoLandmarks /\ ear = NotComputed /\ shifted = NoShift

\* No Gesture is open.
NoGesture == [blinkCount |-> 0, startedAt |-> 0, lastBlinkAt |-> 0]

\* The blink events given to the accumulator, as read off the calls alone:
\*   events    the blink events so far
\*   opened    the Gestures opened so far; the open one is number opened
\*   seen      seen[g]: the blink events that came while Gesture g was open
\*   prevAt    the time of the last blink event since start() or stop(), or -1
\*   prevIn    the Gesture that event went to
\*   discarded the Gestures that were open when stop() or start() cleared them
CleanGmon ==
  [events |-> 0, opened |-> 0, seen |-> <<>>, prevAt |-> -1, prevIn |-> 0,
   discarded |-> {}]
GestureIdle ==
  /\ now = 0
  /\ gesture = NoGesture
  /\ detecting = FALSE
  /\ onGestureLog = <<>>
  /\ actionLog = <<>>
  /\ gmon = CleanGmon

\* WebcamFeed is mounted with isActive false: its effect has run stopCamera,
\* which found nothing to stop.
NoStream == 0
CamIdle ==
  /\ isActive = FALSE
  /\ mounted = TRUE
  /\ gumPending = 0
  /\ acquired = 0
  /\ liveStreams = {}
  /\ streamRef = NoStream
  /\ srcObject = NoStream

\* useSpeechToText as constructed, inside a VoiceMessageModal that is closed.
NoInstance == 0
Instances == 1 .. MaxInstances
NothingHeard == [finals |-> <<>>, settled |-> TRUE, from |-> {}, listening |-> TRUE]
VoiceClosed ==
  /\ modalActive = FALSE
  /\ isSending = FALSE
  /\ messageSent = FALSE
  /\ autoTimer = FALSE
  /\ dismissTimer = 0
  /\ isListening = FALSE
  /\ transcript = <<>>
  /\ speechError = FALSE
  /\ recognitionRef = NoInstance
  /\ recognition = [i \in Instances |-> "none"]
  /\ speechCall = "none"
  /\ heard = NothingHeard
VoiceIdle == VoiceClosed /\ hasSpeechAPI = TRUE

\* the other components of the page, as constructed
PageIdle == CamIdle /\ VoiceIdle

\* The edge function has no request.
NoRequest == [method |-> "none", body |-> [kind |-> "none"]]
NoResponse == [status |-> 0, error |-> "none", cors |-> FALSE]
HandlerIdle ==
  /\ request = NoRequest
  /\ handlerAt = "idle"
  /\ bodyRead = FALSE
  /\ mailCalls = 0
  /\ response = NoResponse

\* The Auth page as constructed: mode 'login', empty fields.
NoCall == [name |-> "none", in |-> "none"]
AuthIdle ==
  /\ mode = "login"
  /\ isSubmitting = FALSE
  /\ pending = NoCall
  /\ onPage = TRUE
  /\ emailOk = FALSE
  /\ passwordOk = FALSE
  /\ otpLen = 0
  /\ newPasswordOk = FALSE
  /\ otpVerified = FALSE

\* the edge function and the Auth page, as constructed
ServiceIdle == HandlerIdle /\ AuthIdle

Init == HookInit /\ EarIdle /\ GestureIdle /\ PageIdle /\ ServiceIdle

\* ------------------------------------------------------- detectFrame
\* detectFrame calls detectForVideo only when the detector and the video are
\* ready and the video shows a frame the closure has not seen.
CallsDetect(lvt) == faceLandmarkerRef /\ videoWidth # 0 /\ currentTime # lvt

\* What detectForVideo can do in a run of detectFrame entered with lvt; a
\* run that does not call it is given the one result it never looks at.
ResultsAt(lvt) == IF CallsDetect(lvt) THEN Results ELSE {NoFace}

\* One run of detectFrame by a closure whose lastVideoTime is lvt, with a the
\* callbacks pending and ref the value of animationFrameRef.current when the
\* run begins, and res what detectForVideo does if it is called.  A reopening
\* frame that calls onBlink stops inside the handler (inBlink); OnBlinkReturn,
\* OnBlinkThrow and OnBlinkStop finish the run.
DetectFrame(a, ref, lvt, res) ==
  IF ~faceLandmarkerRef \/ videoWidth = 0
    THEN /\ Rearm(a, lvt)
         /\ UNCHANGED <<debounceVars, inBlink, mon, counted>>
  ELSE IF ~(currentTime # lvt)
    THEN /\ Rearm(a, lvt)
         /\ UNCHANGED <<debounceVars, inBlink, mon, counted>>
  ELSE IF res.kind = "throw"
    THEN /\ armed' = a
         /\ animationFrameRef' = ref
         /\ UNCHANGED <<debounceVars, inBlink, mon, counted>>
  ELSE IF ~HasFace(res)
    THEN /\ Rearm(a, currentTime)
         /\ mon' = ObserveNoFace(mon)
         /\ UNCHANGED <<debounceVars, inBlink, counted>>
  ELSE IF IsClosed(res.l, res.r)
    THEN /\ blinkCounterRef' = blinkCounterRef + 1
         /\ Rearm(a, currentTime)
         /\ mon' = Observe(mon, res.l, res.r, FALSE)
         /\ counted' = TRUE
         /\ UNCHANGED <<wasBlinkingRef, inBlink>>
  ELSE IF ShouldEmit(blinkCounterRef, wasBlinkingRef, consecutiveFrames)
    THEN /\ wasBlinkingRef' = WasAfterOpen(blinkCounterRef, wasBlinkingRef, consecutiveFrames)
         /\ inBlink' = TRUE
         /\ armed' = a
         /\ animationFrameRef' = ref
         /\ mon' = Observe(mon, res.l, res.r, TRUE)
         /\ UNCHANGED <<blinkCounterRef, counted>>
  ELSE /\ wasBlinkingRef' = WasAfterOpen(blinkCounterRef, wasBlinkingRef, consecutiveFrames)
       /\ blinkCounterRef' = 0
       /\ Rearm(a, currentTime)
       /\ mon' = Observe(mon, res.l, res.r, FALSE)
       /\ UNCHANGED <<inBlink, counted>>

\* The pending callbacks a tick can fire: held says that the callback is the
\* one whose handle animationFrameRef holds.
CanFire(v, held) ==
  IF held
    THEN animationFrameRef = PendingRef(v)
    ELSE armed[v] > (IF animationFrameRef = PendingRef(v) THEN 1 ELSE 0)

\* A requestAnimationFrame callback fires: the detectFrame closure whose
\* lastVideoTime is v runs.
Tick(v, held, res) ==
  /\ UNCHANGED otherVars
  /\ ~inBlink
  /\ CanFire(v, held)
  /\ DetectFrame(RemoveCallback(armed, v),
                 IF held THEN FiredRef ELSE animationFrameRef, v, res)
  /\ UNCHANGED <<initVars, videoVars, isRunning, consecutiveFrames, started, lastCall>>

\* onBlink returns: detectFrame resets the counter and re-arms itself.
OnBlinkReturn ==
  /\ UNCHANGED otherVars
  /\ inBlink
  /\ blinkCounterRef' = 0
  /\ Rearm(armed, currentTime)
  /\ inBlink' = FALSE
  /\ UNCHANGED <<initVars, videoVars, isRunning, consecutiveFrames, started,
                 wasBlinkingRef, lastCall, mon, counted>>

\* onBlink throws: nothing catches it, the rest of detectFrame is skipped.
OnBlinkThrow ==
  /\ UNCHANGED otherVars
  /\ inBlink
  /\ inBlink' = FALSE
  /\ UNCHANGED <<initVars, videoVars, isRunning, consecutiveFrames, started,
                 debounceVars, armed, animationFrameRef, lastCall, mon, counted>>

\* onBlink calls stopDetection and returns: stopDetection cancels the handle
\* in animationFrameRef, then detectFrame resets the counter and re-arms.
OnBlinkStop ==
  /\ UNCHANGED otherVars
  /\ inBlink
  /\ Rearm(Cancel(armed, animationFrameRef), currentTime)
  /\ isRunning' = FALSE
  /\ blinkCounterRef' = 0
  /\ wasBlinkingRef' = FALSE
  /\ inBlink' = FALSE
  /\ lastCall' = "stopInBlink"
  /\ mon' = CleanMon
  /\ UNCHANGED <<initVars, videoVars, consecutiveFrames, started, counted>>

\* ---------------------------------------------------- startDetection
\* startDetection returns early: the detector or an element is missing, or
\* canvas.getContext("2d") gives null.
StartRefused ==
  /\ lastCall' = "start"
  /\ UNCHANGED <<initVars, videoVars, isRunning, consecutiveFrames, started,
                 debounceVars, animationFrameRef, armed, inBlink, mon, counted>>

\* startDetection(video, canvas): elementsOk says that both elements are
\* given, ctxOk that the canvas has a 2d context, res is what detectForVideo
\* does in the first run of detectFrame, which startDetection makes itself.
startDetection(elementsOk, ctxOk, res) ==
  /\ UNCHANGED otherVars
  /\ ~inBlink
  /\ IF ~faceLandmarkerRef \/ ~elementsOk
       THEN StartRefused
     ELSE IF ~ctxOk
       THEN StartRefused
     ELSE /\ started < MaxLoops
          /\ started' = started + 1
          /\ isRunning' = TRUE
          /\ lastCall' = "start"
          /\ DetectFrame(armed, animationFrameRef, InitialLastVideoTime, res)
          /\ UNCHANGED <<initVars, videoVars, consecutiveFrames>>

\* The calls of startDetection: a refused call does not reach detectFrame.
StartCalls ==
  {<<e, c, res>> \in BOOLEAN \X BOOLEAN \X Results :
     IF faceLandmarkerRef /\ e /\ c
       THEN res \in ResultsAt(InitialLastVideoTime)
       ELSE res = NoFace}

\* ----------------------------------------------------- stopDetection
stopDetection ==
  /\ UNCHANGED otherVars
  /\ ~inBlink
  /\ armed' = Cancel(armed, animationFrameRef)
  /\ animationFrameRef' = NullRef
  /\ isRunning' = FALSE
  /\ blinkCounterRef' = 0
  /\ wasBlinkingRef' = FALSE
  /\ lastCall' = "stop"
  /\ mon' = CleanMon
  /\ UNCHANGED <<initVars, videoVars, consecutiveFrames, started, inBlink, counted>>

\* ------------------------------------------------ initializeDetector
\* The call, up to its first await.
initializeDetector ==
  /\ UNCHANGED otherVars
  /\ ~inBlink
  /\ initPending < MaxInit
  /\ error' = FALSE
  /\ initPending' = initPending + 1
  /\ UNCHANGED <<faceLandmarkerRef, isInitialized, videoVars, isRunning,
                 consecutiveFrames, started, debounceVars, animationFrameRef, armed,
                 inBlink, lastCall, mon, counted>>

\* Both awaits of a call succeed.
InitializeResolved ==
  /\ UNCHANGED otherVars
  /\ ~inBlink
  /\ initPending > 0
  /\ initPending' = initPending - 1
  /\ faceLandmarkerRef' = TRUE
  /\ isInitialized' = TRUE
  /\ UNCHANGED <<error, videoVars, isRunning, consecutiveFrames, started,
                 debounceVars, animationFrameRef, armed, inBlink, lastCall, mon,
                 counted>>

\* One of the awaits of a call fails: the catch block runs.
InitializeRejected ==
  /\ UNCHANGED otherVars
  /\ ~inBlink
  /\ initPending > 0
  /\ initPending' = initPending - 1
  /\ error' = TRUE
  /\ isInitialized' = FALSE
  /\ UNCHANGED <<faceLandmarkerRef, videoVars, isRunning, consecutiveFrames, started,
                 debounceVars, animationFrameRef, armed, inBlink, lastCall, mon,
                 counted>>

\* ------------------------------------------------- the video element
\* The video shows its next frame.
VideoFrame ==
  /\ UNCHANGED otherVars
  /\ ~inBlink
  /\ currentTime < MaxTime
  /\ currentTime' = currentTime + 1
  /\ counted' = FALSE
  /\ UNCHANGED <<initVars, videoWidth, isRunning, consecutiveFrames, started,
                 debounceVars, animationFrameRef, armed, inBlink, lastCall, mon>>

\* The video has loaded its metadata: videoWidth is no longer 0.
VideoMetadata ==
  /\ UNCHANGED otherVars
  /\ ~inBlink
  /\ videoWidth = 0
  /\ videoWidth' = ReadyVideoWidth
  /\ UNCHANGED <<initVars, currentTime, isRunning, consecutiveFrames, started,
                 debounceVars, animationFrameRef, armed, inBlink, lastCall, mon,
                 counted>>

Next ==
  \/ initializeDetector
  \/ InitializeResolved
  \/ InitializeRejected
  \/ \E a \in StartCalls : startDetection(a[1], a[2], a[3])
  \/ stopDetection
  \/ \E v \in VideoTimes, held \in BOOLEAN :
       \E res \in ResultsAt(v) : Tick(v, held, res)
  \/ OnBlinkReturn
  \/ OnBlinkThrow
  \/ OnBlinkStop
  \/ VideoFrame
  \/ VideoMetadata

Spec == Init /\ [][Next]_vars

\* ------------------------------------------------------ calculateEAR
\* Landmark coordinates are whole multiples of 0.0001; distances and the
\* 0.0001 that calculateEAR adds to the divisor are in hundredths of that
\* unit (Epsilon is 100), roots are rounded down, and the ratio is in
\* hundredths, as the EAR values of the debouncer are.
Coords == 0 .. MaxCoord
Points == [x : Coords, y : Coords, z : {0}]
EyePoints == {"top", "bottom", "left", "right"}
LandmarkSets == [EyePoints -> Points]

\* a JavaScript number: a finite value, NaN or Infinity
Num(v) == [kind |-> "number", val |-> v]
NaN == [kind |-> "NaN", val |-> 0]
Infinity == [kind |-> "Infinity", val |-> 0]

\* Math.sqrt, rounded down
Sqrt(n) == CHOOSE k \in 0 .. n : k * k <= n /\ (k + 1) * (k + 1) > n

\* (mutation: the coordinates are added, not subtracted)
Dist_Sum(p, q) ==
  Sqrt(10000 * ((p.x + q.x) * (p.x + q.x) + (p.y + q.y) * (p.y + q.y)))

\* Math.sqrt(Math.pow(p.x - q.x, 2) + Math.pow(p.y - q.y, 2))
Dist(p, q) ==
  Sqrt(10000 * ((p.x - q.x) * (p.x - q.x) + (p.y - q.y) * (p.y - q.y)))

\* n / d for n >= 0 and d >= 0: division by zero raises nothing
Divide(n, d) ==
  IF d = 0 THEN (IF n = 0 THEN NaN ELSE Infinity) ELSE Num((n * 100) \div d)

\* (mutation: the 0.0001 is left out)
Divisor_NoEpsilon(horizontalDist) == horizontalDist

\* horizontalDist + 0.0001
Divisor(horizontalDist) == horizontalDist + Epsilon

calculateEAR(lm, topIdx, bottomIdx, leftIdx, rightIdx) ==
  LET top == lm[topIdx]
      bottom == lm[bottomIdx]
      left == lm[leftIdx]
      right == lm[rightIdx]
      verticalDist == Dist(top, bottom)
      horizontalDist == Dist(left, right)
  IN Divide(verticalDist, Divisor(horizontalDist))

\* calculateEAR is called with the landmarks of one eye.
CalcEAR ==
  /\ ear = NotComputed
  /\ ear' = calculateEAR(landmarks, "top", "bottom", "left", "right")
  /\ UNCHANGED <<hookVars, landmarks, shifted, gestureVars, pageVars, handlerVars, authVars>>

\* the offsets by which a face moves between two frames
Offsets == [x : -MaxShift .. MaxShift, y : -MaxShift .. MaxShift, z : 0 .. MaxShift]

\* every landmark moved by the same offset d
Translate(lm, d) ==
  [i \in DOMAIN lm |-> [x |-> lm[i].x + d.x, y |-> lm[i].y + d.y, z |-> lm[i].z + d.z]]

\* calculateEAR is called with the landmarks of the next frame, in which the
\* eye has moved by d.
CalcEARMoved(d) ==
  /\ ear # NotComputed
  /\ shifted = NoShift
  /\ d # NoShift
  /\ landmarks' = Translate(landmarks, d)
  /\ shifted' = d
  /\ ear' = calculateEAR(landmarks', "top", "bottom", "left", "right")
  /\ UNCHANGED <<hookVars, gestureVars, pageVars, handlerVars, authVars>>

EarInit ==
  /\ HookAtRest
  /\ landmarks \in LandmarkSets
  /\ ear = NotComputed
  /\ shifted = NoShift
  /\ GestureIdle
  /\ PageIdle
  /\ ServiceIdle

EarNext ==
  \/ CalcEAR
  \/ \E d \in Offsets : CalcEARMoved(d)

EarSpec == EarInit /\ [][EarNext]_vars

\* ------------------------------------------- the gesture accumulator
\* The accumulator and the dispatcher are not among the source files: they
\* are modelled from sections 4.3, 4.4, 5 and 6 of the design.  The settle
\* window is checked by elapsed time (5, strategy (a)); a check is made by
\* the background check and, first thing, by onBlinkEvent.  stop() discards
\* the open Gesture without finalizing it (5, Cancellation) and start()
\* begins with no open Gesture.  The hook calls onBlink whenever one of its
\* loops emits, so blink events are not tied to detecting.

\* static table blinkCount -> ActionId (3, ActionMapping)
ActionMapping_Swapped ==
  (2 :> "Fan" @@ 3 :> "Light" @@ 5 :> "Emergency" @@ 6 :> "Voice")

ActionMapping ==
  (2 :> "Light" @@ 3 :> "Fan" @@ 5 :> "Emergency" @@ 6 :> "Voice")

\* the effects the dispatcher invokes for a finalized Gesture (4.4)
Dispatch(blinkCount) ==
  IF blinkCount \in DOMAIN ActionMapping
    THEN <<ActionMapping[blinkCount]>>
    ELSE <<>>

\* (mutation: the window is counted from the first blink of the Gesture)
Deadline_FromStart(g) == g.startedAt + SettleWindow

\* lastBlinkAt + settleWindow (4.3)
Deadline(g) == g.lastBlinkAt + SettleWindow

\* "now" has passed the deadline of the open Gesture
SettleDue == gesture # NoGesture /\ now > Deadline(gesture)

\* (mutation: a finalized Gesture is not cleared)
CheckedGesture_NotCleared == gesture

\* the open Gesture after the settle check: a Gesture that is due is emitted
\* to the dispatcher, then cleared
CheckedGesture == IF SettleDue THEN NoGesture ELSE gesture

CheckedLog ==
  IF SettleDue
    THEN Append(onGestureLog,
                [gesture |-> gmon.opened, blinkCount |-> gesture.blinkCount])
    ELSE onGestureLog

CheckedActions ==
  IF SettleDue THEN actionLog \o Dispatch(gesture.blinkCount) ELSE actionLog

\* (mutation: a blink that joins the open Gesture is not counted)
AttachBlink_NoCount(g, ts) == [g EXCEPT !.lastBlinkAt = ts]

\* a BlinkEvent attaches to the open Gesture
AttachBlink(g, ts) == [g EXCEPT !.blinkCount = @ + 1, !.lastBlinkAt = ts]

\* a BlinkEvent starts a new Gesture
OpenGesture(ts) == [blinkCount |-> 1, startedAt |-> ts, lastBlinkAt |-> ts]

\* (mutation: stop() keeps the open Gesture)
StoppedGesture_Kept == gesture

\* the open Gesture after stop()
StoppedGesture == NoGesture

\* the monitor after a Gesture was cleared by stop() or start()
Discard(m) ==
  [m EXCEPT !.prevAt = -1,
            !.discarded = IF gesture # NoGesture THEN @ \cup {m.opened} ELSE @]

\* The background check finds the open Gesture due and finalizes it.
SettleCheck ==
  /\ SettleDue
  /\ gesture' = CheckedGesture
  /\ onGestureLog' = CheckedLog
  /\ actionLog' = CheckedActions
  /\ UNCHANGED <<authVars, handlerVars, pageVars, hookVars, earVars, now, detecting, gmon>>

\* onBlinkEvent(now): the settle check, then the blink attaches to the open
\* Gesture or starts a new one.
onBlinkEvent ==
  /\ gmon.events < MaxBlinks
  /\ LET g == CheckedGesture
         fresh == g = NoGesture
         id == IF fresh THEN gmon.opened + 1 ELSE gmon.opened
     IN /\ gesture' = IF fresh THEN OpenGesture(now) ELSE AttachBlink(g, now)
        /\ gmon' = [gmon EXCEPT !.events = @ + 1,
                                !.opened = id,
                                !.seen = IF fresh THEN Append(@, 1)
                                         ELSE [@ EXCEPT ![id] = @ + 1],
                                !.prevAt = now,
                                !.prevIn = id]
  /\ onGestureLog' = CheckedLog
  /\ actionLog' = CheckedActions
  /\ UNCHANGED <<authVars, handlerVars, pageVars, hookVars, earVars, now, detecting>>

\* start(): a no-op when detecting already; otherwise detection begins with
\* no open Gesture.
GestureStart ==
  /\ IF detecting
       THEN UNCHANGED <<gesture, detecting, gmon>>
       ELSE /\ detecting' = TRUE
            /\ gesture' = NoGesture
            /\ gmon' = Discard(gmon)
  /\ UNCHANGED <<authVars, handlerVars, pageVars, hookVars, earVars, now, onGestureLog, actionLog>>

\* stop(): the open Gesture is discarded, not finalized.
GestureStop ==
  /\ detecting' = FALSE
  /\ gesture' = StoppedGesture
  /\ gmon' = Discard(gmon)
  /\ UNCHANGED <<authVars, handlerVars, pageVars, hookVars, earVars, now, onGestureLog, actionLog>>

\* The clock advances.
ClockTick ==
  /\ now < MaxNow
  /\ now' = now + 1
  /\ UNCHANGED <<authVars, handlerVars, pageVars, hookVars, earVars, gesture, detecting, onGestureLog, actionLog, gmon>>

GestureInit == HookAtRest /\ EarIdle /\ GestureIdle /\ PageIdle /\ ServiceIdle

GestureNext ==
  \/ SettleCheck
  \/ onBlinkEvent
  \/ GestureStart
  \/ GestureStop
  \/ ClockTick

GestureSpec == GestureInit /\ [][GestureNext]_vars

\* -------------------------------------------------------- WebcamFeed
\* The effect of WebcamFeed (src/src/components/WebcamFeed.tsx, lines 26-71)
\* with its dependencies isActive and onVideoReady.  Streams are numbered as
\* getUserMedia gives them.  React detaches videoRef before the cleanup of an
\* unmount runs, so after an unmount videoRef.current is null.

\* stopCamera(): the tracks of the stream in streamRef are stopped, the
\* video element, if videoRef holds one, loses its srcObject
stopCamera(live, ref, src, hasVideo) ==
  /\ liveStreams' = IF ref # NoStream THEN live \ {ref} ELSE live
  /\ streamRef' = IF ref # NoStream THEN NoStream ELSE ref
  /\ srcObject' = IF hasVideo THEN NoStream ELSE src

\* The effect runs again: the cleanup of the last run (stopCamera), then the
\* body, which calls startCamera up to its await when active is true and
\* stopCamera when it is false.
RunEffect(active) ==
  /\ stopCamera(liveStreams, streamRef, srcObject, TRUE)
  /\ IF active
       THEN /\ acquired + gumPending < MaxStreams
            /\ gumPending' = gumPending + 1
       ELSE UNCHANGED gumPending

\* the parent renders WebcamFeed with another isActive
SetActive(active) ==
  /\ mounted
  /\ active # isActive
  /\ isActive' = active
  /\ RunEffect(active)
  /\ UNCHANGED <<mounted, acquired, notCamVars>>

\* the parent renders WebcamFeed with another onVideoReady callback
SetOnVideoReady ==
  /\ mounted
  /\ RunEffect(isActive)
  /\ UNCHANGED <<isActive, mounted, acquired, notCamVars>>

\* the component unmounts: the cleanup runs with videoRef.current null
Unmount ==
  /\ mounted
  /\ mounted' = FALSE
  /\ stopCamera(liveStreams, streamRef, srcObject, FALSE)
  /\ UNCHANGED <<isActive, gumPending, acquired, notCamVars>>

\* getUserMedia resolves with a new stream: startCamera goes on after its
\* await
GetUserMediaResolved ==
  /\ gumPending > 0
  /\ gumPending' = gumPending - 1
  /\ acquired' = acquired + 1
  /\ liveStreams' = liveStreams \cup {acquired + 1}
  /\ IF mounted
       THEN srcObject' = acquired + 1 /\ streamRef' = acquired + 1
       ELSE UNCHANGED <<srcObject, streamRef>>
  /\ UNCHANGED <<isActive, mounted, notCamVars>>

\* getUserMedia rejects: the catch block logs the error
GetUserMediaRejected ==
  /\ gumPending > 0
  /\ gumPending' = gumPending - 1
  /\ UNCHANGED <<isActive, mounted, acquired, liveStreams, streamRef, srcObject,
                 notCamVars>>

CamInit == HookAtRest /\ EarIdle /\ GestureIdle /\ PageIdle /\ ServiceIdle

CamNext ==
  \/ \E active \in BOOLEAN : SetActive(active)
  \/ SetOnVideoReady
  \/ Unmount
  \/ GetUserMediaResolved
  \/ GetUserMediaRejected

CamSpec == CamInit /\ [][CamNext]_vars

\* ---------------------------------- useSpeechToText, VoiceMessageModal
\* The useSpeechToText hook (src/unnamed/part_000) as VoiceMessageModal
\* (src/unnamed/part_001) calls it.  A transcript is a sequence of words and
\* string concatenation is the concatenation of sequences.  A recognition
\* instance is "none" before it is made, then "starting" (start() was
\* called), "running" (its start event came), "failed" (its error event
\* came, its end event is still to come) or "ended"; its handlers stay
\* attached for all its life, whatever recognitionRef holds.

Words == {"go", "on"}

\* the results of a result event from event.resultIndex on
SpeechResult(f, w) == [isFinal |-> f, text |-> w]
ResultLists ==
  UNION {[1 .. n -> {SpeechResult(f, w) : f \in BOOLEAN, w \in Words}] :
           n \in 1 .. MaxResults}

\* the loop of onresult: the texts of the results that are final (isFinal
\* TRUE) or interim (isFinal FALSE), concatenated in order
RECURSIVE Collect(_, _)
Collect(results, f) ==
  IF results = <<>> THEN <<>>
  ELSE (IF Head(results).isFinal = f THEN <<Head(results).text>> ELSE <<>>)
         \o Collect(Tail(results), f)

\* setTranscript((prev) => ...) of onresult
NextTranscript(prev, results) ==
  LET finalTranscript == Collect(results, TRUE)
      interimTranscript == Collect(results, FALSE)
  IN IF finalTranscript # <<>>
       THEN prev \o finalTranscript
       ELSE prev \o interimTranscript

\* the results seen since the transcript was emptied, after instance i
\* delivered results: the final texts in order, whether this event had a
\* final result, the instances heard from, and whether isListening was true
\* at every result
Hear(h, i, results) ==
  [finals |-> h.finals \o Collect(results, TRUE),
   settled |-> Collect(results, TRUE) # <<>>,
   from |-> h.from \cup {i},
   listening |-> h.listening /\ isListening]

\* the instances made so far
Created == Cardinality({i \in Instances : recognition[i] # "none"})

\* startListening(): startOk says that recognition.start() did not throw
startListening(startOk) ==
  IF ~hasSpeechAPI
    THEN /\ speechError' = TRUE
         /\ UNCHANGED <<isListening, transcript, recognitionRef, recognition,
                        speechCall, heard>>
    ELSE /\ Created < MaxInstances
         /\ transcript' = <<>>
         /\ heard' = NothingHeard
         /\ recognitionRef' = Created + 1
         /\ recognition' =
              [recognition EXCEPT ![Created + 1] = IF startOk THEN "starting" ELSE "ended"]
         /\ speechError' = ~startOk
         /\ speechCall' = "start"
         /\ UNCHANGED isListening

\* stopListening()
stopListening ==
  /\ recognitionRef' = NoInstance
  /\ isListening' = FALSE
  /\ speechCall' = "stop"
  /\ UNCHANGED <<transcript, speechError, recognition, heard>>

\* The auto-start effect (dependencies isActive, isListening, messageSent)
\* after a step: when a dependency changed, its cleanup clears the timer and
\* it sets a new one under its condition; fired says that the step is the
\* timer firing.
AutoStartEffect(fired) ==
  autoTimer' =
    IF <<modalActive', isListening', messageSent'>> # <<modalActive, isListening, messageSent>>
      THEN modalActive' /\ ~isListening' /\ ~messageSent'
      ELSE (IF fired THEN FALSE ELSE autoTimer)

\* the parent opens the modal
OpenModal ==
  /\ ~modalActive
  /\ modalActive' = TRUE
  /\ UNCHANGED <<isSending, messageSent, dismissTimer, speechVars, notVoiceVars>>
  /\ AutoStartEffect(FALSE)

\* The modal closes: the reset effect calls resetTranscript,
\* setMessageSent(false) and stopListening.
ModalCloses ==
  /\ modalActive' = FALSE
  /\ transcript' = <<>>
  /\ heard' = NothingHeard
  /\ speechError' = FALSE
  /\ messageSent' = FALSE
  /\ recognitionRef' = NoInstance
  /\ isListening' = FALSE
  /\ speechCall' = "stop"
  /\ UNCHANGED <<hasSpeechAPI, recognition>>
  /\ AutoStartEffect(FALSE)

\* handleClose(): stopListening(), then onDismiss() closes the modal
handleClose ==
  /\ modalActive
  /\ ModalCloses
  /\ UNCHANGED <<isSending, dismissTimer, notVoiceVars>>

\* the auto-close timer of a sent message fires: onDismiss()
DismissTimerFires ==
  /\ dismissTimer > 0
  /\ dismissTimer' = dismissTimer - 1
  /\ IF modalActive
       THEN ModalCloses
       ELSE UNCHANGED <<modalActive, messageSent, autoTimer, speechVars>>
  /\ UNCHANGED <<isSending, notVoiceVars>>

\* handleToggleListening(), by the microphone button
handleToggleListening(startOk) ==
  /\ modalActive
  /\ ~isSending
  /\ ~messageSent
  /\ IF isListening THEN stopListening ELSE startListening(startOk)
  /\ UNCHANGED <<modalActive, isSending, messageSent, dismissTimer, hasSpeechAPI,
                 notVoiceVars>>
  /\ AutoStartEffect(FALSE)

\* the timer of the auto-start effect fires: startListening()
AutoStart(startOk) ==
  /\ autoTimer
  /\ startListening(startOk)
  /\ UNCHANGED <<modalActive, isSending, messageSent, dismissTimer, hasSpeechAPI,
                 notVoiceVars>>
  /\ AutoStartEffect(TRUE)

\* handleSendMessage(), by the send button, up to its await: hasEmail says
\* that userEmail is given
handleSendMessage(hasEmail) ==
  /\ modalActive
  /\ transcript # <<>>
  /\ ~isSending
  /\ ~messageSent
  /\ dismissTimer < MaxDismiss
  /\ isSending' = hasEmail
  /\ UNCHANGED <<modalActive, messageSent, autoTimer, dismissTimer, speechVars,
                 notVoiceVars>>

\* the invoke of handleSendMessage settles: ok says that it gave no error
SendSettled(ok) ==
  /\ isSending
  /\ isSending' = FALSE
  /\ messageSent' = (ok \/ messageSent)
  /\ dismissTimer' = IF ok THEN dismissTimer + 1 ELSE dismissTimer
  /\ UNCHANGED <<modalActive, speechVars, notVoiceVars>>
  /\ AutoStartEffect(FALSE)

\* recognition.onstart of instance i
OnStart(i) ==
  /\ recognition[i] = "starting"
  /\ recognition' = [recognition EXCEPT ![i] = "running"]
  /\ isListening' = TRUE
  /\ UNCHANGED <<modalActive, isSending, messageSent, dismissTimer, hasSpeechAPI,
                 transcript, speechError, recognitionRef, speechCall, heard,
                 notVoiceVars>>
  /\ AutoStartEffect(FALSE)

\* recognition.onresult of instance i
OnResult(i, results) ==
  /\ recognition[i] = "running"
  /\ Len(NextTranscript(transcript, results)) <= MaxWords
  /\ transcript' = NextTranscript(transcript, results)
  /\ heard' = Hear(heard, i, results)
  /\ UNCHANGED <<modalVars, hasSpeechAPI, isListening, speechError, recognitionRef,
                 recognition, speechCall, notVoiceVars>>

\* recognition.onerror of instance i
OnError(i) ==
  /\ recognition[i] \in {"starting", "running"}
  /\ recognition' = [recognition EXCEPT ![i] = "failed"]
  /\ speechError' = TRUE
  /\ isListening' = FALSE
  /\ UNCHANGED <<modalActive, isSending, messageSent, dismissTimer, hasSpeechAPI,
                 transcript, recognitionRef, speechCall, heard, notVoiceVars>>
  /\ AutoStartEffect(FALSE)

\* recognition.onend of instance i
OnEnd(i) ==
  /\ recognition[i] \in {"starting", "running", "failed"}
  /\ recognition' = [recognition EXCEPT ![i] = "ended"]
  /\ isListening' = FALSE
  /\ UNCHANGED <<modalActive, isSending, messageSent, dismissTimer, hasSpeechAPI,
                 transcript, speechError, recognitionRef, speechCall, heard,
                 notVoiceVars>>
  /\ AutoStartEffect(FALSE)

VoiceInit ==
  /\ HookAtRest
  /\ EarIdle
  /\ GestureIdle
  /\ CamIdle
  /\ VoiceClosed
  /\ hasSpeechAPI \in BOOLEAN
  /\ ServiceIdle

VoiceNext ==
  \/ OpenModal
  \/ handleClose
  \/ DismissTimerFires
  \/ \E startOk \in BOOLEAN : handleToggleListening(startOk)
  \/ \E startOk \in BOOLEAN : AutoStart(startOk)
  \/ \E hasEmail \in BOOLEAN : handleSendMessage(hasEmail)
  \/ \E ok \in BOOLEAN : SendSettled(ok)
  \/ \E i \in Instances : OnStart(i)
  \/ \E i \in Instances, results \in ResultLists : OnResult(i, results)
  \/ \E i \in Instances : OnError(i)
  \/ \E i \in Instances : OnEnd(i)

VoiceSpec == VoiceInit /\ [][VoiceNext]_vars

\* ------------------------------------------------ send-voice-message
\* The handler of the edge function
\* (src/supabase/functions/send-voice-message/index.ts, lines 18-114).  A
\* string is a sequence of characters.  The fields of the body are as
\* VoiceMessageRequest declares them: a string, or missing.

Chars == {"a", "@", " "}
Strings == UNION {[1 .. n -> Chars] : n \in 0 .. MaxChars}
Missing == [type |-> "undefined", chars |-> <<>>]
Str(chars) == [type |-> "string", chars |-> chars]
Fields == {Missing} \cup {Str(c) : c \in Strings}

\* what await req.json() gives: a rejection, null, or an object
Unparsable == [kind |-> "unparsable"]
NullBody == [kind |-> "null"]
Object(to, msg) == [kind |-> "object", to_email |-> to, message |-> msg]
Bodies == {Unparsable, NullBody} \cup {Object(to, msg) : to \in Fields, msg \in Fields}
Requests == [method : {"OPTIONS", "POST", "GET"}, body : Bodies]

\* the truth value of a field
Truthy(v) == v.type = "string" /\ v.chars # <<>>

\* String.prototype.includes, for one character
Includes(chars, c) == \E i \in DOMAIN chars : chars[i] = c

\* String.prototype.trim
RECURSIVE TrimStart(_)
TrimStart(chars) ==
  IF chars # <<>> /\ Head(chars) = " " THEN TrimStart(Tail(chars)) ELSE chars
RECURSIVE TrimEnd(_)
TrimEnd(chars) ==
  IF chars # <<>> /\ chars[Len(chars)] = " "
    THEN TrimEnd(SubSeq(chars, 1, Len(chars) - 1))
    ELSE chars
Trim(chars) == TrimEnd(TrimStart(chars))

\* (mutation: the '@' is not looked for)
BadAddress_NoAt(to) == ~Truthy(to)

\* !to_email || !to_email.includes("@")
BadAddress(to) == ~Truthy(to) \/ ~Includes(to.chars, "@")

\* !message || message.trim().length === 0
BlankMessage(msg) == ~Truthy(msg) \/ Len(Trim(msg.chars)) = 0

\* the responses of the handler
corsHeaders == TRUE
Preflight == [status |-> 200, error |-> "none", cors |-> corsHeaders]
Json(status, message) == [status |-> status, error |-> message, cors |-> corsHeaders]

\* A request arrives: the handler runs to its first await, req.json(), or,
\* for an OPTIONS request, to its end.
Receive(req) ==
  /\ handlerAt = "idle"
  /\ request' = req
  /\ IF req.method = "OPTIONS"
       THEN /\ response' = Preflight
            /\ handlerAt' = "done"
            /\ UNCHANGED bodyRead
       ELSE /\ bodyRead' = TRUE
            /\ handlerAt' = "json"
            /\ UNCHANGED response
  /\ UNCHANGED <<mailCalls, clientVars>>

\* req.json() settles: the handler runs to resend.emails.send or to its end.
BodySettled ==
  /\ handlerAt = "json"
  /\ IF request.body.kind # "object"
       THEN /\ response' = Json(500, "exception")
            /\ handlerAt' = "done"
            /\ UNCHANGED mailCalls
     ELSE IF BadAddress(request.body.to_email)
       THEN /\ response' = Json(400, "Invalid email address")
            /\ handlerAt' = "done"
            /\ UNCHANGED mailCalls
     ELSE IF BlankMessage(request.body.message)
       THEN /\ response' = Json(400, "No message provided")
            /\ handlerAt' = "done"
            /\ UNCHANGED mailCalls
     ELSE /\ mailCalls' = mailCalls + 1
          /\ handlerAt' = "send"
          /\ UNCHANGED response
  /\ UNCHANGED <<request, bodyRead, clientVars>>

\* resend.emails.send settles: it returns (with the data of the mail or
\* with an error object, which the handler does not look at) or it throws.
MailSettled(thrown) ==
  /\ handlerAt = "send"
  /\ response' = IF thrown THEN Json(500, "exception") ELSE Json(200, "none")
  /\ handlerAt' = "done"
  /\ UNCHANGED <<request, bodyRead, mailCalls, clientVars>>

HandlerInit == HookAtRest /\ EarIdle /\ GestureIdle /\ PageIdle /\ ServiceIdle

HandlerNext ==
  \/ \E req \in Requests : Receive(req)
  \/ BodySettled
  \/ \E thrown \in BOOLEAN : MailSettled(thrown)

HandlerSpec == HandlerInit /\ [][HandlerNext]_vars

\* --------------------------------------------------------- Auth page
\* The Auth page (src/src/pages/Auth.tsx): its mode, its fields as far as
\* handleSubmit looks at them, and the one useAuth call handleSubmit awaits.
\* The submit button is disabled while isSubmitting is true; the buttons
\* that change the mode are not.  useAuth is not among the source files: a
\* call of it returns without error, returns an error or throws, and a
\* verifyOtp without error may sign the user in, which makes the page
\* navigate to '/'.

Call(name, m) == [name |-> name, in |-> m]

\* (mutation: the 'otp' branch calls updatePassword)
CallOf_SkipsOtp(m) ==
  CASE m = "forgot" -> "resetPassword"
    [] m = "otp" -> "updatePassword"
    [] m = "newPassword" -> "updatePassword"
    [] m = "login" -> "signIn"
    [] m = "signup" -> "signUp"

\* the useAuth function handleSubmit calls in mode m
CallOf(m) ==
  CASE m = "forgot" -> "resetPassword"
    [] m = "otp" -> "verifyOtp"
    [] m = "newPassword" -> "updatePassword"
    [] m = "login" -> "signIn"
    [] m = "signup" -> "signUp"

\* the checks handleSubmit makes in mode m before it calls
InputsOk(m) ==
  CASE m = "forgot" -> emailOk
    [] m = "otp" -> otpLen = OtpLength
    [] m = "newPassword" -> newPasswordOk
    [] m \in {"login", "signup"} -> emailOk /\ passwordOk

\* otpVerified after a step: verified says that a verifyOtp succeeded in it
Verified(verified) ==
  otpVerified' = IF verified THEN TRUE
                 ELSE IF mode' = "login" THEN FALSE
                 ELSE otpVerified

\* the user types into a field that the page shows in this mode
TypeEmail(ok) ==
  /\ onPage
  /\ mode \in {"login", "signup", "forgot"}
  /\ emailOk' = ok
  /\ UNCHANGED <<mode, isSubmitting, pending, onPage, passwordOk, otpLen,
                 newPasswordOk, otpVerified, notAuthVars>>

TypePassword(ok) ==
  /\ onPage
  /\ mode \in {"login", "signup"}
  /\ passwordOk' = ok
  /\ UNCHANGED <<mode, isSubmitting, pending, onPage, emailOk, otpLen,
                 newPasswordOk, otpVerified, notAuthVars>>

TypeOtp(n) ==
  /\ onPage
  /\ mode = "otp"
  /\ otpLen' = n
  /\ UNCHANGED <<mode, isSubmitting, pending, onPage, emailOk, passwordOk,
                 newPasswordOk, otpVerified, notAuthVars>>

TypeNewPassword(ok) ==
  /\ onPage
  /\ mode = "newPassword"
  /\ newPasswordOk' = ok
  /\ UNCHANGED <<mode, isSubmitting, pending, onPage, emailOk, passwordOk, otpLen,
                 otpVerified, notAuthVars>>

\* "Forgot password?"
ForgotClicked ==
  /\ onPage
  /\ mode = "login"
  /\ mode' = "forgot"
  /\ passwordOk' = FALSE
  /\ Verified(FALSE)
  /\ UNCHANGED <<isSubmitting, pending, onPage, emailOk, otpLen, newPasswordOk,
                 notAuthVars>>

\* "Back to Sign In"
BackClicked ==
  /\ onPage
  /\ mode \in {"forgot", "otp", "newPassword"}
  /\ mode' = "login"
  /\ passwordOk' = FALSE
  /\ otpLen' = 0
  /\ newPasswordOk' = FALSE
  /\ Verified(FALSE)
  /\ UNCHANGED <<isSubmitting, pending, onPage, emailOk, notAuthVars>>

\* "Don't have an account? Sign up" / "Already have an account? Sign in"
ToggleClicked ==
  /\ onPage
  /\ mode \in {"login", "signup"}
  /\ mode' = IF mode = "login" THEN "signup" ELSE "login"
  /\ Verified(FALSE)
  /\ UNCHANGED <<isSubmitting, pending, onPage, emailOk, passwordOk, otpLen,
                 newPasswordOk, notAuthVars>>

\* handleSubmit, up to its await: a form whose inputs fail the check of its
\* mode shows a toast and calls nothing
handleSubmit ==
  /\ onPage
  /\ ~isSubmitting
  /\ IF InputsOk(mode)
       THEN /\ isSubmitting' = TRUE
            /\ pending' = Call(CallOf(mode), mode)
       ELSE UNCHANGED <<isSubmitting, pending>>
  /\ UNCHANGED <<mode, onPage, emailOk, passwordOk, otpLen, newPasswordOk,
                 otpVerified, notAuthVars>>

\* mode after the awaited call returned without error
ModeAfter(name, m) ==
  CASE name = "resetPassword" -> "otp"
    [] name = "verifyOtp" -> "newPassword"
    [] name = "updatePassword" -> "login"
    [] OTHER -> m

\* The awaited call settles: handleSubmit goes on to its end.  signedIn says
\* that a verifyOtp without error has signed the user in.
CallSettled(outcome, signedIn) ==
  /\ pending # NoCall
  /\ pending' = NoCall
  /\ IF ~onPage
       THEN UNCHANGED <<mode, isSubmitting, onPage, emailOk, passwordOk, otpLen,
                        newPasswordOk, otpVerified>>
       ELSE /\ isSubmitting' = FALSE
            /\ mode' = IF outcome = "ok" THEN ModeAfter(pending.name, mode) ELSE mode
            /\ onPage' = ~(/\ outcome = "ok"
                           /\ \/ pending.name \in {"signIn", "signUp"}
                              \/ pending.name = "verifyOtp" /\ signedIn)
            /\ IF outcome = "ok" /\ pending.name = "updatePassword"
                 THEN emailOk' = FALSE /\ newPasswordOk' = FALSE /\ otpLen' = 0
                 ELSE UNCHANGED <<emailOk, newPasswordOk, otpLen>>
            /\ Verified(outcome = "ok" /\ pending.name = "verifyOtp")
            /\ UNCHANGED passwordOk
  /\ UNCHANGED notAuthVars

\* the calls that can settle: signedIn matters to a verifyOtp without error
Settlements ==
  {<<o, s>> \in {"ok", "error", "throws"} \X BOOLEAN :
     s => (o = "ok" /\ pending.name = "verifyOtp")}

AuthInit == HookAtRest /\ EarIdle /\ GestureIdle /\ PageIdle /\ ServiceIdle

AuthNext ==
  \/ \E ok \in BOOLEAN : TypeEmail(ok)
  \/ \E ok \in BOOLEAN : TypePassword(ok)
  \/ \E n \in 0 .. OtpLength : TypeOtp(n)
  \/ \E ok \in BOOLEAN : TypeNewPassword(ok)
  \/ ForgotClicked
  \/ BackClicked
  \/ ToggleClicked
  \/ handleSubmit
  \/ \E a \in Settlements : CallSettled(a[1], a[2])

AuthSpec == AuthInit /\ [][AuthNext]_vars

\* ================================================================ claims
\* A step in which a run of detectFrame calls detectForVideo and gets res: a
\* tick of a pending callback, or the run startDetection makes itself.  (Such
\* a step takes a pending callback, enters the onBlink handler or makes a
\* closure: the first conjunct follows from the second, and settles most
\* steps without it.)
FrameStep(res) ==
  /\ armed' # armed \/ inBlink' \/ started' # started
  /\ \/ \E v \in VideoTimes, held \in BOOLEAN : CallsDetect(v) /\ Tick(v, held, res)
     \/ CallsDetect(InitialLastVideoTime) /\ startDetection(TRUE, TRUE, res)

\* A tick that sees a frame its closure has processed already.
StaleTick ==
  \E v \in VideoTimes, held \in BOOLEAN :
    faceLandmarkerRef /\ videoWidth # 0 /\ currentTime = v /\ Tick(v, held, NoFace)

OpenFrame(res) == res.kind = "face" /\ res.l + res.r >= 2 * earThreshold
ClosedFrame(res) == res.kind = "face" /\ res.l + res.r < 2 * earThreshold

\* onBlink is invoked in this step.
Emitted == ~inBlink /\ inBlink'

EmitCondition == blinkCounterRef >= consecutiveFrames /\ ~wasBlinkingRef

Clean == blinkCounterRef = 0 /\ ~wasBlinkingRef

\* C1: on a processed frame whose averaged EAR is >= earThreshold, with
\* consecutiveClosedFrames >= minConsecutiveClosedFrames and wasBlinking
\* false, onBlink is invoked once and wasBlinking becomes true; onBlink is
\* invoked in no other step.
C1_EmitOnReopen ==
  [][LET EmitStep == /\ EmitCondition
                     /\ \E res \in Results : OpenFrame(res) /\ FrameStep(res)
     IN /\ EmitStep => (Emitted /\ mon'.emits = mon.emits + 1 /\ wasBlinkingRef')
        /\ Emitted => EmitStep]_vars

\* with consecutiveFrames = 2: inside the handler after two closed frames
C1_Witness ==
  /\ inBlink
  /\ wasBlinkingRef
  /\ consecutiveFrames = 2
  /\ blinkCounterRef >= 2
  /\ mon.emits = 1

\* C2, as claimed: from a clean debouncer, open frames, then at least
\* consecutiveFrames closed frames, then one open frame emit exactly one
\* blink, at the reopening frame: none before it, one once it is processed.
C2_OneBlinkAtReopen ==
  /\ mon.phase \in {"opens", "closing"} => mon.emits = 0
  /\ mon.phase = "reopened" => mon.emits = 1

\* C2, amended: the same, for consecutiveFrames >= 1.
C2_OneBlinkAtReopen_Min1 == consecutiveFrames >= 1 => C2_OneBlinkAtReopen

\* two closed frames, then the open frame whose handler is running
C2_Witness ==
  /\ mon.phase = "reopened"
  /\ mon.emits = 1
  /\ consecutiveFrames = 2
  /\ inBlink

\* C3: with consecutiveFrames >= 1, as long as every run of closed frames is
\* shorter than consecutiveFrames, no blink is emitted.
C3_NoiseFiltered == (consecutiveFrames >= 1 /\ mon.shortOnly) => mon.emits = 0

\* one closed frame, then an open one, with consecutiveFrames = 2
C3_Witness ==
  /\ mon.shortOnly
  /\ mon.phase = "other"
  /\ consecutiveFrames = 2
  /\ mon.emits = 0

\* C4, as claimed: after a stopDetection call made between frames, and until
\* the next startDetection call, no frame callback is pending and the
\* debounce state is reset.
C4_StopHalts == lastCall = "stop" => (ArmedCount = 0 /\ Clean)

\* C5, as claimed: at most one detectFrame loop exists, however often
\* startDetection is called.
C5_SingleLoop == LiveCount <= 1

\* C6, as claimed: a tick that sees a frame already processed changes no
\* debounce state, and no video frame increments the counter twice.
C6_FrameOnce ==
  [][/\ StaleTick => UNCHANGED debounceVars
     /\ \A res \in Results : (FrameStep(res) /\ ClosedFrame(res)) => ~counted]_vars

\* C7, as claimed: a run of detectFrame that ends in an exception, thrown by
\* detectForVideo or by the onBlink handler, leaves the loop with a callback
\* pending.
C7_LoopSurvives ==
  [][(\/ OnBlinkThrow
      \/ \E v \in VideoTimes, held \in BOOLEAN :
           CallsDetect(v) /\ Tick(v, held, Throws))
       => LiveCount' = LiveCount]_vars

\* C8, as claimed (checked for consecutiveFrames >= 1, on the frames of a
\* session in which startDetection was called once and the counter is the
\* length of the run of closed frames that is going on): on a processed frame
\* with EAR >= earThreshold on which the emit condition does not hold, no
\* blink is emitted and wasBlinking is false afterwards.
C8_ElseResets ==
  [][\A res \in Results :
       (/\ consecutiveFrames >= 1
        /\ started = 1 /\ started' = 1
        /\ blinkCounterRef = mon.run
        /\ FrameStep(res)
        /\ OpenFrame(res)
        /\ ~EmitCondition)
         => (~Emitted /\ ~wasBlinkingRef')]_vars

\* C9: a frame in which no face is found changes neither the counter nor
\* wasBlinking and emits nothing.
C9_NoFaceSkipped ==
  [][FrameStep(NoFace) => (UNCHANGED debounceVars /\ ~Emitted)]_vars

\* a run of closed frames with a frame without a face in it has reached
\* consecutiveFrames = 2
C9_Witness ==
  /\ mon.dropout
  /\ consecutiveFrames = 2
  /\ mon.run = 2
  /\ blinkCounterRef = 2

\* C10, as claimed: whenever the last call was a stopDetection, so that a
\* startDetection call can follow it, the debounce state is clean.
C10_CleanRestart ==
  (lastCall \in {"stop", "stopInBlink"} /\ ~inBlink) => Clean

\* C11, as claimed: while the last initializeDetector call to finish has
\* failed (error set, isInitialized false), a startDetection call makes no
\* detectFrame closure and begins no loop.
C11_FailedInitBlocksStart ==
  [][(/\ error
      /\ ~isInitialized
      /\ \E a \in StartCalls : startDetection(a[1], a[2], a[3]))
       => (started' = started /\ ArmedCount' = ArmedCount /\ ~inBlink')]_vars

\* C12: a processed frame whose averaged EAR is below earThreshold adds
\* exactly one to the counter, leaves wasBlinking as it was and emits nothing.
C12_ClosedFrameCounts ==
  [][\A res \in Results :
       (ClosedFrame(res) /\ FrameStep(res))
         => (/\ blinkCounterRef' = blinkCounterRef + 1
             /\ UNCHANGED wasBlinkingRef
             /\ ~Emitted)]_vars

\* two closed frames processed after a blink, with consecutiveFrames = 1
C12_Witness ==
  /\ consecutiveFrames = 1
  /\ blinkCounterRef = 2
  /\ mon.run = 2
  /\ mon.emits = 1
  /\ wasBlinkingRef
  /\ ~inBlink

\* C13, as claimed: when the processing of a frame whose averaged EAR is
\* >= earThreshold ends, with or without a call of onBlink, the counter is 0.
C13_OpenFrameResets ==
  [][(\/ ~Emitted /\ \E res \in Results : OpenFrame(res) /\ FrameStep(res)
      \/ OnBlinkReturn
      \/ OnBlinkThrow
      \/ OnBlinkStop)
       => blinkCounterRef' = 0]_vars

\* C14: every onBlink invocation ends a run of at least consecutiveFrames
\* closed frames processed since the last open frame (and so since the last
\* onBlink invocation, which an open frame makes): at least consecutiveFrames
\* closed frames are processed between two consecutive invocations.
C14_OneBlinkPerClosure == [][Emitted => mon.run >= consecutiveFrames]_vars

\* the second onBlink invocation since the debouncer was clean
C14_Witness ==
  /\ inBlink
  /\ mon.emits = 2
  /\ consecutiveFrames >= 1

\* C20: whenever the top-lid and bottom-lid landmarks coincide in x and y,
\* calculateEAR returns exactly 0, whatever the horizontal distance is, 0
\* included; the divisor is strictly positive for every landmark set.
C20_ZeroVerticalGivesZero ==
  /\ Divisor(Dist(landmarks["left"], landmarks["right"])) > 0
  /\ (/\ ear # NotComputed
      /\ landmarks["top"].x = landmarks["bottom"].x
      /\ landmarks["top"].y = landmarks["bottom"].y)
       => ear = Num(0)

\* coinciding lids and coinciding eye corners
C20_Witness ==
  /\ ear = Num(0)
  /\ landmarks["top"] = landmarks["bottom"]
  /\ landmarks["left"] = landmarks["right"]

C22_ReentrantStopHalts ==
  (lastCall = "stopInBlink" /\ ~inBlink) => (ArmedCount = 0 /\ Clean)

\* C23, as claimed (checked for consecutiveFrames >= 1, on the frames of a
\* session in which startDetection was called once and the counter is the
\* length of the run of closed frames that is going on): every open frame
\* that ends a run of at least consecutiveFrames closed frames emits a blink.
C23_EveryReopenEmits ==
  [][\A res \in Results :
       (/\ consecutiveFrames >= 1
        /\ started = 1 /\ started' = 1
        /\ blinkCounterRef = mon.run
        /\ mon.run >= consecutiveFrames
        /\ OpenFrame(res)
        /\ FrameStep(res))
         => Emitted]_vars

\* C24, as claimed: isRunning is true exactly when a detectFrame callback is
\* pending or a run of detectFrame is inside the onBlink handler.
C24_RunningIffArmed == isRunning <=> LiveCount > 0

\* C25, as claimed: while WebcamFeed is inactive or unmounted and no
\* getUserMedia call is pending, no acquired stream has tracks that were not
\* stopped and the video element has no srcObject.
C25_NoStreamWhileInactive ==
  ((~isActive \/ ~mounted) /\ gumPending = 0)
    => (liveStreams = {} /\ srcObject = NoStream)

\* C26, as claimed: while the modal stays open and no message has been sent,
\* a transcript captured while listening is emptied, once listening has
\* stopped, only by the user starting to listen again with the microphone
\* button.
C26_TranscriptKept ==
  [][(/\ modalActive /\ modalActive'
      /\ ~messageSent
      /\ ~isListening
      /\ heard.listening
      /\ transcript # <<>>
      /\ transcript' = <<>>)
       => (~isListening /\ \E startOk \in BOOLEAN : handleToggleListening(startOk))]_vars

\* C27, as claimed: while the last call of the hook was stopListening,
\* isListening is false.
C27_StoppedStaysStopped == speechCall = "stop" => ~isListening

\* C28, as claimed: when the results since the transcript was emptied came
\* from one recognition instance and the last result event had a final
\* result, the transcript is the final texts in the order they came.
C28_FinalsOnly ==
  (Cardinality(heard.from) <= 1 /\ heard.settled) => transcript = heard.finals

C30_ResetFlow ==
  [][LET settles == pending # NoCall /\ pending' = NoCall
         calls == pending = NoCall /\ pending' # NoCall
     IN /\ (mode' = "otp" /\ mode # "otp")
             => (settles /\ pending = Call("resetPassword", "forgot"))
        /\ (mode' = "newPassword" /\ mode # "newPassword")
             => (settles /\ pending = Call("verifyOtp", "otp"))
        /\ (calls /\ pending'.name = "updatePassword")
             => (mode = "newPassword" /\ otpVerified)
        /\ (onPage /\ \E o \in {"error", "throws"} : CallSettled(o, FALSE))
             => (mode' = mode /\ ~isSubmitting')]_vars

\* an updatePassword call is awaited: it was made in mode 'newPassword',
\* after a verifyOtp call succeeded
C30_Witness ==
  /\ pending = Call("updatePassword", "newPassword")
  /\ isSubmitting
  /\ mode = "newPassword"
  /\ otpVerified
  /\ onPage

\* A settle check is made in this step and finds the open Gesture due.
Finalizes == SettleDue /\ (SettleCheck \/ onBlinkEvent)

\* the Gestures of the onGesture callbacks in log
FinalizedIn(log) == {log[i].gesture : i \in DOMAIN log}

C16_CountEqualsEvents ==
  /\ \A i \in DOMAIN onGestureLog :
       onGestureLog[i].blinkCount = gmon.seen[onGestureLog[i].gesture]
  /\ gesture # NoGesture => gesture.blinkCount = gmon.seen[gmon.opened]
  /\ gmon.events =
       SumOver([i \in DOMAIN onGestureLog |-> onGestureLog[i].blinkCount],
               DOMAIN onGestureLog)
       + gesture.blinkCount
       + SumOver(gmon.seen, gmon.discarded)

\* a Gesture of three blinks finalized, one of two blinks open
C16_Witness ==
  /\ Len(onGestureLog) = 1
  /\ onGestureLog[1].blinkCount = 3
  /\ gesture.blinkCount = 2
  /\ gmon.events = 5

\* C17: a blink event that comes less than SettleWindow after the previous
\* one (with no stop() or start() between them) goes to the same Gesture;
\* one that comes more than SettleWindow after it goes to another Gesture,
\* and the Gesture of the previous one has been finalized by then.
C17_SettleWindowGrouping ==
  [][(onBlinkEvent /\ gmon.prevAt >= 0)
       => /\ now - gmon.prevAt < SettleWindow => gmon'.prevIn = gmon.prevIn
          /\ now - gmon.prevAt > SettleWindow
               => /\ gmon'.prevIn # gmon.prevIn
                  /\ gmon.prevIn \in FinalizedIn(onGestureLog')]_vars

\* two blinks more than SettleWindow apart: two Gestures with blinkCount 1
C17_Witness ==
  /\ gmon.events = 2
  /\ gmon.discarded = {}
  /\ Len(onGestureLog) = 2
  /\ onGestureLog[1].blinkCount = 1
  /\ onGestureLog[2].blinkCount = 1

\* C18: a step that finalizes a Gesture with blinkCount 2, 3, 5 or 6 invokes
\* Light, Fan, Emergency or Voice, once, and nothing else; one that
\* finalizes a Gesture with another blinkCount, and a step that finalizes
\* none, invokes nothing.
C18_Dispatch ==
  [][LET n == Len(onGestureLog)
     IN IF Len(onGestureLog') = n + 1
          THEN LET c == onGestureLog'[n + 1].blinkCount
               IN actionLog' = actionLog \o
                    (CASE c = 2 -> <<"Light">>
                       [] c = 3 -> <<"Fan">>
                       [] c = 5 -> <<"Emergency">>
                       [] c = 6 -> <<"Voice">>
                       [] OTHER -> <<>>)
          ELSE actionLog' = actionLog /\ onGestureLog' = onGestureLog]_vars

\* a Gesture of four blinks, then one of two blinks: Light alone
C18_Witness ==
  /\ Len(onGestureLog) = 2
  /\ onGestureLog[1].blinkCount = 4
  /\ onGestureLog[2].blinkCount = 2
  /\ actionLog = <<"Light">>

====
